---- MODULE Spec2Model ----
(***************************************************************************)
(* hdl21.primitives: Primitive, PrimitiveCall, MosParams, the registry of  *)
(* built-in primitives and the Nmos/Pmos constructors, as a state machine  *)
(* over a heap of Primitive objects, parameter objects and PrimitiveCall   *)
(* objects.  An object's identity is its index in its heap sequence.       *)
(***************************************************************************)
EXTENDS Integers, Sequences, FiniteSets, TLC

VARIABLES
    prims,   \* heap of Primitive objects (the registry first)
    objs,    \* heap of parameter values held by callers
    calls,   \* heap of PrimitiveCall objects
    last,    \* the most recent operation: what was asked and what came back
    inp,     \* the constructor arguments a probing run was started with
    th       \* per-thread frame of an in-flight PrimitiveCall construction

vars == <<prims, objs, calls, last, inp, th>>

----------------------------------------------------------------------------
\* Bounds of the model

\* port lists handed to the Primitive constructor have at most MaxPorts ports
MaxPorts == 2
\* objects (Primitives beyond the registry, parameter values, calls) allocated
MaxAllocs == 4
\* threads constructing PrimitiveCalls concurrently
NumThreads == 2

\* integer values handed to Optional[int] fields, and to the finger counts
IntVals == {0 - 1, 0, 1, 2}

FingerVals == {0, 1}

----------------------------------------------------------------------------
\* Optional[int]: None is the empty tuple, an integer n is <<n>>

None == << >>

Some(n) == <<n>>

OptIntVals == {None} \cup {Some(n) : n \in IntVals}

----------------------------------------------------------------------------
\* Exceptions and results

NoExc == [exc |-> "none", msg |-> ""]

Raise(e, m) == [exc |-> e, msg |-> m]

----------------------------------------------------------------------------
\* Classes.  The @paramclass classes of the module, the imported HasNoParams,
\* two plain subclasses a caller may declare, and some types that are not
\* parameter classes.

ParamClasses ==
    { "MosParams", "DiodeParams", "ResistorParams", "PhysicalResistorParams",
      "IdealCapacitorParams", "PhysicalCapacitorParams", "IdealInductorParams",
      "PhysicalInductorParams", "PhysicalShortParams", "VoltageSourceParams",
      "CurrentSourceParams", "HasNoParams" }

NonParamTypes == { "int", "PrimitiveType" }

\* the direct base class of a class; a caller may declare plain subclasses:
\* class MosParamsSub(MosParams): pass    class NoParamsSub(HasNoParams): pass
Base(c) ==
    CASE c = "MosParamsSub" -> "MosParams"
      [] c = "NoParamsSub"  -> "HasNoParams"
      [] OTHER              -> "object"

RECURSIVE Mro(_)
\* the class and all its ancestors (Python's method resolution order, as a set)
Mro(c) == IF c = "object" THEN {"object"} ELSE {c} \cup Mro(Base(c))

\* hdl21.params.isparamclass, applied to the types declared above
isparamclass(t) == t \in ParamClasses

\* isinstance(v, T) for a value whose class is cls
IsInstanceExact(cls, T) == cls = T

IsInstanceAny(cls, T) == TRUE

isinstance(cls, T) == T \in Mro(cls)

----------------------------------------------------------------------------
\* Ports

\* Port(name=n): PORT visibility, unit width unless given
Port(n) == [name |-> n, vis |-> "PORT", width |-> 1]

Visibilities == {"PORT", "INTERNAL"}

\* the ports a caller may hand to the Primitive constructor; "" is no name
PortInputs ==
    [name : {"", "p", "n"}, vis : Visibilities, width : {1, 2}]

RECURSIVE SeqsUpTo(_, _)
\* all sequences over S of length at most n
SeqsUpTo(S, n) ==
    IF n = 0 THEN { << >> }
    ELSE LET shorter == SeqsUpTo(S, n - 1)
         IN  shorter \cup { Append(s, x) : s \in shorter, x \in S }

PortListInputs == SeqsUpTo(PortInputs, MaxPorts)

----------------------------------------------------------------------------
\* Primitive.__post_init_post_parse__

RECURSIVE PortsCheckNoVis(_, _)
PortsCheckNoVis(port_list, i) ==
    IF i > Len(port_list) THEN NoExc
    ELSE IF port_list[i].name = "" THEN Raise("ValueError", "Unnamed Primitive Port")
    ELSE PortsCheckNoVis(port_list, i + 1)

RECURSIVE PortsCheck(_, _)
\* for p in self.port_list: the first offending port raises
PortsCheck(port_list, i) ==
    IF i > Len(port_list) THEN NoExc
    ELSE IF port_list[i].name = "" THEN Raise("ValueError", "Unnamed Primitive Port")
    ELSE IF port_list[i].vis # "PORT" THEN Raise("ValueError", "Invalid Primitive Port")
    ELSE PortsCheck(port_list, i + 1)

PrimitivePostInitPortsFirst(port_list, paramtype) ==
    IF PortsCheck(port_list, 1).exc # "none"
    THEN PortsCheck(port_list, 1)
    ELSE IF ~ isparamclass(paramtype)
    THEN Raise("TypeError", "Invalid Primitive param-type")
    ELSE NoExc

PrimitivePostInit(port_list, paramtype) ==
    IF ~ isparamclass(paramtype)
    THEN Raise("TypeError", "Invalid Primitive param-type")
    ELSE PortsCheck(port_list, 1)

----------------------------------------------------------------------------
\* Primitive.ports: {p.name: p for p in self.port_list}
\* A dict is a sequence of <<key, value>> pairs in insertion order.

Keys(d) == [i \in 1 .. Len(d) |-> d[i][1]]

HasKey(d, k) == \E i \in 1 .. Len(d) : d[i][1] = k

\* d[k] = v: a new key is appended, an existing key keeps its place
DictSet(d, k, v) ==
    IF HasKey(d, k)
    THEN [i \in 1 .. Len(d) |-> IF d[i][1] = k THEN <<k, v>> ELSE d[i]]
    ELSE Append(d, <<k, v>>)

RECURSIVE DictFrom(_, _, _)
DictFrom(port_list, i, d) ==
    IF i > Len(port_list) THEN d
    ELSE DictFrom(port_list, i + 1, DictSet(d, port_list[i].name, port_list[i]))

portsFirstWins(port_list) ==
    LET RECURSIVE F(_, _)
        F(i, d) == IF i > Len(port_list) THEN d
                   ELSE F(i + 1, IF HasKey(d, port_list[i].name) THEN d
                                 ELSE Append(d, <<port_list[i].name, port_list[i]>>))
    IN  F(1, << >>)

ports(port_list) == DictFrom(port_list, 1, << >>)

----------------------------------------------------------------------------
\* PrimitiveCall.__post_init_post_parse__

PrimitiveCallPostInit(params_cls, paramtype) ==
    IF ~ isinstance(params_cls, paramtype)
    THEN Raise("TypeError", "Invalid parameters")
    ELSE NoExc

----------------------------------------------------------------------------
\* MosParams

MosType == {"NMOS", "PMOS"}

MosVth == {"STD", "LOW", "HIGH"}

\* the classes whose instances carry the MosParams fields and validation
MosClasses == {"MosParams", "MosParamsSub"}

\* self.x <= 0 for an Optional[int] x: None <= 0 raises TypeError
Le0(x) == IF x = None THEN "TypeError" ELSE IF x[1] <= 0 THEN "True" ELSE "False"

MosParamsPostInitNoLen(w, l, nser, npar) ==
    IF Le0(w) = "TypeError" THEN Raise("TypeError", "unsupported operand")
    ELSE IF Le0(w) = "True" THEN Raise("ValueError", "invalid width")
    ELSE IF npar <= 0 THEN Raise("ValueError", "invalid number parallel fingers")
    ELSE IF nser <= 0 THEN Raise("ValueError", "invalid number series fingers")
    ELSE NoExc

MosParamsPostInit(w, l, nser, npar) ==
    IF Le0(w) = "TypeError" THEN Raise("TypeError", "unsupported operand")
    ELSE IF Le0(w) = "True" THEN Raise("ValueError", "invalid width")
    ELSE IF Le0(l) = "TypeError" THEN Raise("TypeError", "unsupported operand")
    ELSE IF Le0(l) = "True" THEN Raise("ValueError", "invalid length")
    ELSE IF npar <= 0 THEN Raise("ValueError", "invalid number parallel fingers")
    ELSE IF nser <= 0 THEN Raise("ValueError", "invalid number series fingers")
    ELSE NoExc

----------------------------------------------------------------------------
\* Parameter values.  A value is its class and its fields; dataclass equality
\* compares the class first and then the fields.

MosFields(w, l, nser, npar, tp, vth) ==
    [w |-> w, l |-> l, nser |-> nser, npar |-> npar, tp |-> tp, vth |-> vth]

Eq(a, b) == a.cls = b.cls /\ a.fields = b.fields

\* dataclasses.replace(params, tp=tp): a new instance of params' class built
\* from params' fields with tp overridden
replace(params, tp) ==
    [cls |-> params.cls, fields |-> [params.fields EXCEPT !.tp = tp]]

----------------------------------------------------------------------------
\* The registry of built-in Primitives, in the order the module creates them

Prim(name, desc, port_list, paramtype, primtype) ==
    [name |-> name, desc |-> desc, port_list |-> port_list,
     paramtype |-> paramtype, primtype |-> primtype]

TwoPorts == <<Port("p"), Port("n")>>

Registry ==
    << Prim("Mos", "Mos Transistor",
            <<Port("d"), Port("g"), Port("s"), Port("b")>>, "MosParams", "PHYSICAL"),
       Prim("Diode", "Diode", TwoPorts, "DiodeParams", "PHYSICAL"),
       Prim("IdealResistor", "Ideal Resistor", TwoPorts, "ResistorParams", "IDEAL"),
       Prim("PhysicalResistor", "Physical Resistor", TwoPorts, "ResistorParams", "PHYSICAL"),
       Prim("IdealCapacitor", "Ideal Capacitor", TwoPorts, "IdealCapacitorParams", "IDEAL"),
       Prim("PhysicalCapacitor", "Physical Capacitor", TwoPorts,
            "PhysicalCapacitorParams", "PHYSICAL"),
       Prim("IdealInductor", "Ideal Inductor", TwoPorts, "IdealInductorParams", "IDEAL"),
       Prim("PhysicalInductor", "Physical Inductor", TwoPorts,
            "PhysicalInductorParams", "PHYSICAL"),
       Prim("PhysicalShort", "Short-Circuit/ Net-Tie", TwoPorts,
            "PhysicalShortParams", "PHYSICAL"),
       Prim("IdealShort", "Short-Circuit/ Net-Tie", TwoPorts, "HasNoParams", "IDEAL"),
       Prim("VoltageSource", "Ideal Voltage Source", TwoPorts,
            "VoltageSourceParams", "IDEAL"),
       Prim("CurrentSource", "Ideal Current Source", TwoPorts,
            "CurrentSourceParams", "IDEAL") >>

\* the heap index of the built-in Primitive of a name
Builtin(name) == CHOOSE i \in 1 .. Len(Registry) : Registry[i].name = name

Mos == Builtin("Mos")

IdealShort == Builtin("IdealShort")

IdealResistor == Builtin("IdealResistor")

----------------------------------------------------------------------------
\* State

Allocs == (Len(prims) - Len(Registry)) + Len(objs) + Len(calls)

Op(op, r, prim, obj, ret, val) ==
    [op |-> op, exc |-> r.exc, msg |-> r.msg, prim |-> prim, obj |-> obj,
     ret |-> ret, val |-> val]

----------------------------------------------------------------------------
\* Operations

\* Primitive(name=..., desc=..., port_list=..., paramtype=..., primtype=...)
Primitive(name, desc, port_list, paramtype, primtype) ==
    LET r == PrimitivePostInit(port_list, paramtype)
    IN  /\ r.exc = "none" => Allocs < MaxAllocs
        /\ prims' = IF r.exc = "none"
                    THEN Append(prims, Prim(name, desc, port_list, paramtype, primtype))
                    ELSE prims
        /\ last' = Op("Primitive", r, 0, 0,
                      IF r.exc = "none" THEN Len(prims) + 1 ELSE 0, << >>)
        /\ UNCHANGED <<objs, calls, inp, th>>

\* MosParams(w=..., l=..., nser=..., npar=..., tp=..., vth=...), or the same
\* constructor reached through a plain subclass
MosParams(cls, w, l, nser, npar, tp, vth) ==
    LET r == MosParamsPostInit(w, l, nser, npar)
    IN  /\ r.exc = "none" => Allocs < MaxAllocs
        /\ objs' = IF r.exc = "none"
                   THEN Append(objs, [cls |-> cls,
                                      fields |-> MosFields(w, l, nser, npar, tp, vth)])
                   ELSE objs
        /\ last' = Op("MosParams", r, 0, 0,
                      IF r.exc = "none" THEN Len(objs) + 1 ELSE 0, << >>)
        /\ UNCHANGED <<prims, calls, inp, th>>

\* a value of a class that validates nothing after construction
NewValue(v) ==
    /\ Allocs < MaxAllocs
    /\ objs' = Append(objs, v)
    /\ last' = Op("value", NoExc, 0, 0, Len(objs) + 1, << >>)
    /\ UNCHANGED <<prims, calls, inp, th>>

\* PrimitiveCall(prim=prims[p], params=objs[v]): the new call, or the error
PrimitiveCallMemo(cs, os, ps, p, v) ==
    LET r == PrimitiveCallPostInit(os[v].cls, ps[p].paramtype)
        same == {i \in 1 .. Len(cs) : cs[i].prim = p /\ Eq(os[cs[i].params], os[v])}
    IN  [r |-> r,
         calls |-> IF r.exc = "none" /\ same = {}
                   THEN Append(cs, [prim |-> p, params |-> v]) ELSE cs]

PrimitiveCall(cs, os, ps, p, v) ==
    LET r == PrimitiveCallPostInit(os[v].cls, ps[p].paramtype)
    IN  [r |-> r,
         calls |-> IF r.exc = "none"
                   THEN Append(cs, [prim |-> p, params |-> v]) ELSE cs]

\* Primitive.__call__: prims[p](objs[v])
Call(p, v) ==
    LET c == PrimitiveCall(calls, objs, prims, p, v)
    IN  /\ c.r.exc = "none" => Allocs < MaxAllocs
        /\ calls' = c.calls
        /\ last' = Op("call", c.r, p, v,
                      IF c.r.exc = "none" THEN Len(c.calls) ELSE 0, << >>)
        /\ UNCHANGED <<prims, objs, inp, th>>

\* Mos(replace(params, tp=tp)) for params = objs[v]
MosWithInPlace(opname, tp, v) ==
    IF objs[v].cls \notin MosClasses
    THEN /\ last' = Op(opname, Raise("TypeError", "replace"), Mos, v, 0, << >>)
         /\ UNCHANGED <<prims, objs, calls, inp, th>>
    ELSE LET os == [objs EXCEPT ![v] = replace(objs[v], tp)]
             c  == PrimitiveCall(calls, os, prims, Mos, v)
         IN  /\ Allocs + 1 < MaxAllocs
             /\ objs' = os
             /\ calls' = c.calls
             /\ last' = Op(opname, c.r, Mos, v,
                           IF c.r.exc = "none" THEN Len(c.calls) ELSE 0, << >>)
             /\ UNCHANGED <<prims, inp, th>>

MosWith(opname, tp, v) ==
    IF objs[v].cls \notin MosClasses
    THEN \* replace() of a value with no tp field raises TypeError
         /\ last' = Op(opname, Raise("TypeError", "replace"), Mos, v, 0, << >>)
         /\ UNCHANGED <<prims, objs, calls, inp, th>>
    ELSE LET n  == replace(objs[v], tp)
             r0 == MosParamsPostInit(n.fields.w, n.fields.l, n.fields.nser, n.fields.npar)
             os == Append(objs, n)
             c  == PrimitiveCall(calls, os, prims, Mos, Len(os))
         IN  /\ Allocs + 1 < MaxAllocs
             /\ objs' = IF r0.exc = "none" THEN os ELSE objs
             /\ calls' = IF r0.exc = "none" THEN c.calls ELSE calls
             /\ last' = IF r0.exc # "none" THEN Op(opname, r0, Mos, v, 0, << >>)
                        ELSE Op(opname, c.r, Mos, v,
                                IF c.r.exc = "none" THEN Len(c.calls) ELSE 0, << >>)
             /\ UNCHANGED <<prims, inp, th>>

Nmos(v) == MosWith("Nmos", "NMOS", v)

Pmos(v) == MosWith("Pmos", "PMOS", v)

\* Primitive.ports
ReadPorts(p) ==
    /\ last' = Op("ports", NoExc, p, 0, 0, ports(prims[p].port_list))
    /\ UNCHANGED <<prims, objs, calls, inp, th>>

\* PrimitiveCall.ports
ReadCallPorts(c) ==
    /\ last' = Op("call.ports", NoExc, calls[c].prim, 0, c,
                  ports(prims[calls[c].prim].port_list))
    /\ UNCHANGED <<prims, objs, calls, inp, th>>

\* Primitive.Params
ReadParams(p) ==
    /\ last' = Op("Params", NoExc, p, 0, 0, prims[p].paramtype)
    /\ UNCHANGED <<prims, objs, calls, inp, th>>

----------------------------------------------------------------------------------------------------------------------------------------
\* The program: a caller holding one set of constructor arguments (inp) builds
\* values from them, declares Primitives, and calls, in any order.

\* arguments of the MosParams constructor
MosInputs ==
    { [cls |-> c, fields |-> MosFields(w, l, nser, npar, tp, vth)] :
          c \in MosClasses, w \in OptIntVals, l \in OptIntVals,
          nser \in FingerVals, npar \in FingerVals, tp \in MosType, vth \in MosVth }

\* other values a caller passes: the two resistor schemas (same field, different
\* classes), the no-params marker, a subclass of it, an int
ValueInputs ==
    { [cls |-> c, fields |-> [r |-> 1]] :
          c \in {"ResistorParams", "PhysicalResistorParams"} }
    \cup { [cls |-> c, fields |-> << >>] : c \in {"HasNoParams", "NoParamsSub", "int"} }

UserPortLists ==
    { <<Port("a"), [Port("a") EXCEPT !.width = 2]>>,
      <<Port("")>>, <<[Port("a") EXCEPT !.vis = "INTERNAL"]>> }

UserParamTypes == {"MosParams", "int"}

\* the Primitives the caller uses: three built-ins and whatever it declared
Used == {Mos, IdealResistor, IdealShort} \cup ((Len(Registry) + 1) .. Len(prims))

InitHeap ==
    /\ prims = Registry
    /\ objs = << >>
    /\ calls = << >>
    /\ last = Op("import", NoExc, 0, 0, 0, << >>)
    /\ th = << >>

Init ==
    /\ InitHeap
    /\ inp \in MosInputs \cup ValueInputs

Next ==
    \/ \E pl \in UserPortLists, pt \in UserParamTypes :
           Primitive("User", "user primitive", pl, pt, "IDEAL")
    \/ /\ inp.cls \in MosClasses
       /\ MosParams(inp.cls, inp.fields.w, inp.fields.l, inp.fields.nser,
                    inp.fields.npar, inp.fields.tp, inp.fields.vth)
    \/ /\ inp.cls \notin MosClasses
       /\ NewValue(inp)
    \/ \E p \in Used, v \in 1 .. Len(objs) : Call(p, v)
    \/ \E v \in 1 .. Len(objs) : Nmos(v)
    \/ \E v \in 1 .. Len(objs) : Pmos(v)
    \/ \E p \in Used : ReadPorts(p)
    \/ \E c \in 1 .. Len(calls) : ReadCallPorts(c)
    \/ \E p \in Used : ReadParams(p)

Spec == Init /\ [][Next]_vars

----------------------------------------------------------------------------
\* Properties of Spec

\* hdl21.params.NoParams, the canonical instance of HasNoParams
NoParams == [cls |-> "HasNoParams", fields |-> << >>]

\* C1 (as stated): P(V) succeeds iff the class of V is exactly P.paramtype;
\* otherwise it fails with the parameter-type-mismatch TypeError and produces
\* no PrimitiveCall
C1_Original ==
    [][last'.op = "call" =>
        LET P == prims'[last'.prim]
            V == objs'[last'.obj]
            ok == V.cls = P.paramtype
        IN  /\ ok => /\ last'.exc = "none"
                     /\ calls' = Append(calls, [prim |-> last'.prim, params |-> last'.obj])
            /\ ~ ok => /\ last'.exc = "TypeError"
                       /\ last'.msg = "Invalid parameters"
                       /\ calls' = calls]_vars

\* C1 (amended): P(V) succeeds, appending the PrimitiveCall of P and V, iff the
\* class of V is P.paramtype or derives from it; for a V of any other class,
\* a different schema with identical fields included, it fails with the
\* parameter-type-mismatch TypeError and no PrimitiveCall is produced
C1_Amended ==
    [][last'.op = "call" =>
        LET P == prims'[last'.prim]
            V == objs'[last'.obj]
            ok == P.paramtype \in Mro(V.cls)
        IN  /\ ok => /\ last'.exc = "none"
                     /\ calls' = Append(calls, [prim |-> last'.prim, params |-> last'.obj])
                     /\ last'.ret = Len(calls')
            /\ ~ ok => /\ last'.exc = "TypeError"
                       /\ last'.msg = "Invalid parameters"
                       /\ last'.ret = 0
                       /\ calls' = calls]_vars

\* IdealResistor called with a PhysicalResistorParams value (the same single
\* field r as ResistorParams) was rejected
C1_Witness ==
    /\ last.op = "call"
    /\ last.prim = IdealResistor
    /\ objs[last.obj].cls = "PhysicalResistorParams"
    /\ last.exc = "TypeError"

\* C3 (as stated): MosParams construction fails with ValueError whenever w <= 0,
\* l <= 0, nser <= 0 or npar <= 0, and succeeds for all positive w, l, nser, npar
\* with any tp and vth
C3_Original ==
    last.op = "MosParams" =>
        LET f == inp.fields
            nonpos(x) == x # None /\ x[1] <= 0
            pos(x) == x # None /\ x[1] > 0
        IN  /\ (nonpos(f.w) \/ nonpos(f.l) \/ f.nser <= 0 \/ f.npar <= 0)
                   => last.exc = "ValueError"
            /\ (pos(f.w) /\ pos(f.l) /\ f.nser > 0 /\ f.npar > 0)
                   => /\ last.exc = "none"
                      /\ objs[last.ret] = inp

\* C4: for a valid MosParams value p, Nmos(p) and Pmos(p) leave p (and every
\* other value) unchanged and return a new PrimitiveCall on Mos whose params
\* have tp forced to NMOS or PMOS and w, l, nser, npar, vth equal to p's
C4_NmosPmos ==
    [][(last'.op \in {"Nmos", "Pmos"} /\ objs[last'.obj].cls \in MosClasses) =>
        LET p == objs[last'.obj]
            c == calls'[last'.ret]
            q == objs'[c.params]
        IN  /\ last'.exc = "none"
            /\ \A i \in 1 .. Len(objs) : objs'[i] = objs[i]
            /\ Len(calls') = Len(calls) + 1
            /\ last'.ret = Len(calls')
            /\ c.prim = Mos
            /\ prims'[c.prim].name = "Mos"
            /\ q.fields.tp = (IF last'.op = "Nmos" THEN "NMOS" ELSE "PMOS")
            /\ q.fields.w = p.fields.w
            /\ q.fields.l = p.fields.l
            /\ q.fields.nser = p.fields.nser
            /\ q.fields.npar = p.fields.npar
            /\ q.fields.vth = p.fields.vth]_vars

\* Pmos returned a PMOS call for an input that is still NMOS
C4_Witness ==
    /\ last.op = "Pmos"
    /\ last.exc = "none"
    /\ objs[last.obj].cls = "MosParams"
    /\ objs[last.obj].fields.tp = "NMOS"
    /\ objs[calls[last.ret].params].fields.tp = "PMOS"

C5_Valid ==
    /\ \A i \in 1 .. Len(prims) :
           /\ prims[i].paramtype \in ParamClasses
           /\ \A k \in 1 .. Len(prims[i].port_list) :
                  /\ prims[i].port_list[k].name # ""
                  /\ prims[i].port_list[k].vis = "PORT"
    /\ \A c \in 1 .. Len(calls) :
           /\ calls[c].prim \in 1 .. Len(prims)
           /\ calls[c].params \in 1 .. Len(objs)
           /\ prims[calls[c].prim].paramtype \in Mro(objs[calls[c].params].cls)

C8_TwoCalls ==
    [][(last'.op = "call" /\ last'.exc = "none") =>
        \A i \in 1 .. Len(calls) :
            ( /\ calls[i].prim = last'.prim
              /\ calls[i].params # last'.obj
              /\ Eq(objs[calls[i].params], objs[last'.obj]) ) =>
            LET n == last'.ret
            IN  /\ n \notin 1 .. Len(calls)
                /\ n = Len(calls')
                /\ calls'[i] = calls[i]
                /\ calls'[n].prim = calls'[i].prim
                /\ calls'[n].params # calls'[i].params
                /\ Eq(objs'[calls'[n].params], objs'[calls'[i].params])]_vars

\* the second of two calls of one Primitive with two equal values was made
C8_Witness ==
    /\ last.op = "call"
    /\ last.exc = "none"
    /\ \E i \in 1 .. Len(calls) :
           /\ i # last.ret
           /\ calls[i].prim = calls[last.ret].prim
           /\ calls[i].params # calls[last.ret].params
           /\ Eq(objs[calls[i].params], objs[calls[last.ret].params])

\* C9 (as stated): IdealShort succeeds only when called with the canonical
\* no-parameters value, and fails with the type-mismatch error for any other
C9_Original ==
    (last.op = "call" /\ last.prim = IdealShort) =>
        /\ last.exc = "none" <=> Eq(objs[last.obj], NoParams)
        /\ last.exc # "none" => (last.exc = "TypeError" /\ last.msg = "Invalid parameters")

\* C9 (amended): IdealShort succeeds exactly when called with an instance of
\* HasNoParams or of a class derived from it (the canonical value included),
\* and fails with the type-mismatch error for any other value
C9_Amended ==
    (last.op = "call" /\ last.prim = IdealShort) =>
        /\ last.exc = "none" <=> "HasNoParams" \in Mro(objs[last.obj].cls)
        /\ Eq(objs[last.obj], NoParams) => last.exc = "none"
        /\ last.exc # "none" => (last.exc = "TypeError" /\ last.msg = "Invalid parameters")

\* IdealShort called with a MosParams value was rejected
C9_Witness ==
    /\ last.op = "call"
    /\ last.prim = IdealShort
    /\ objs[last.obj].cls = "MosParams"
    /\ last.exc = "TypeError"

C10_Positive ==
    /\ \A i \in 1 .. Len(objs) :
           objs[i].cls \in MosClasses =>
               /\ objs[i].fields.w # None /\ objs[i].fields.w[1] > 0
               /\ objs[i].fields.l # None /\ objs[i].fields.l[1] > 0
    /\ \A c \in 1 .. Len(calls) :
           calls[c].prim = Mos =>
               /\ objs[calls[c].params].fields.w # None
               /\ objs[calls[c].params].fields.w[1] > 0
               /\ objs[calls[c].params].fields.l # None
               /\ objs[calls[c].params].fields.l[1] > 0

\* C10 (as stated): a MosParams construction with w or l none is always
\* rejected, never with ValueError; every MosParams value and every params of
\* a call on Mos has integer w > 0 and l > 0
C10_Original ==
    /\ (last.op = "MosParams" /\ (inp.fields.w = None \/ inp.fields.l = None)) =>
           last.exc \notin {"none", "ValueError"}
    /\ C10_Positive

\* C10 (amended): a MosParams construction with w or l none is always rejected:
\* with ValueError (invalid width) when w is an integer <= 0, which is checked
\* before l is looked at, and with TypeError otherwise; every MosParams value
\* and every params of a call on Mos has integer w > 0 and l > 0
C10_Amended ==
    /\ (last.op = "MosParams" /\ (inp.fields.w = None \/ inp.fields.l = None)) =>
           IF inp.fields.w # None /\ inp.fields.w[1] <= 0
           THEN last.exc = "ValueError" /\ last.msg = "invalid width"
           ELSE last.exc = "TypeError"
    /\ C10_Positive

\* a construction with a positive width and no length was rejected
C10_Witness ==
    /\ last.op = "MosParams"
    /\ inp.fields.w # None
    /\ inp.fields.w[1] > 0
    /\ inp.fields.l = None
    /\ last.exc = "TypeError"

----------------------------------------------------------------------------
\* The Primitive constructor and Primitive.ports, probed with one set of
\* constructor arguments

ParamTypeInputs == {"MosParams", "ResistorParams", "HasNoParams"} \cup NonParamTypes

InitPrim ==
    /\ InitHeap
    /\ inp \in [port_list : PortListInputs, paramtype : ParamTypeInputs]

NextPrim ==
    \/ Primitive("User", "user primitive", inp.port_list, inp.paramtype, "PHYSICAL")
    \/ \E p \in 1 .. Len(prims) : ReadPorts(p)

SpecPrim == InitPrim /\ [][NextPrim]_vars

BadPort(p) == p.name = "" \/ p.vis # "PORT"

\* C2: constructing a Primitive fails with the schema-type TypeError whenever
\* paramtype is no parameter schema, whatever the ports; fails with the port
\* ValueError when paramtype is a schema and some port is unnamed or not of
\* PORT visibility; and succeeds, yielding the Primitive as given, otherwise
C2_Construct ==
    last.op = "Primitive" =>
        LET bad == \E k \in 1 .. Len(inp.port_list) : BadPort(inp.port_list[k])
        IN  IF inp.paramtype \notin ParamClasses
            THEN /\ last.exc = "TypeError"
                 /\ last.msg = "Invalid Primitive param-type"
                 /\ last.ret = 0
            ELSE IF bad
            THEN /\ last.exc = "ValueError"
                 /\ last.ret = 0
            ELSE /\ last.exc = "none"
                 /\ last.ret = Len(prims)
                 /\ prims[last.ret].port_list = inp.port_list
                 /\ prims[last.ret].paramtype = inp.paramtype

\* a construction with a non-schema paramtype and an unnamed port was rejected
\* with the schema-type error
C2_Witness ==
    /\ last.op = "Primitive"
    /\ inp.paramtype = "int"
    /\ \E k \in 1 .. Len(inp.port_list) : inp.port_list[k].name = ""
    /\ last.exc = "TypeError"

Distinct(port_list) ==
    \A i, j \in 1 .. Len(port_list) :
        port_list[i].name = port_list[j].name => i = j

\* C6 (as stated): ports has exactly one entry per port of port_list: as many
\* entries as port_list, the i-th key being the i-th port's name and mapping to
\* that port, keys unique, every mapped port of PORT visibility
C6_Original ==
    last.op = "ports" =>
        LET pl == prims[last.prim].port_list
            d  == last.val
        IN  /\ Len(d) = Len(pl)
            /\ \A i \in 1 .. Len(pl) : d[i] = <<pl[i].name, pl[i]>>
            /\ \A i, j \in 1 .. Len(d) : d[i][1] = d[j][1] => i = j
            /\ \A i \in 1 .. Len(d) : d[i][2].vis = "PORT"

\* C6 (amended): the keys of ports are the distinct port names of port_list in
\* the order of their first occurrence, unique, each mapped to the last port of
\* port_list with that name, every mapped port of PORT visibility; when the
\* names of port_list are pairwise distinct, as for every built-in constant,
\* there is exactly one entry per port, in port_list order (Mos: d, g, s, b)
C6_Amended ==
    last.op = "ports" =>
        LET pl == prims[last.prim].port_list
            d  == last.val
            firsts == {i \in 1 .. Len(pl) : \A j \in 1 .. (i - 1) : pl[j].name # pl[i].name}
            rank(i) == Cardinality({j \in firsts : j <= i})
            lastOf(nm) == CHOOSE i \in 1 .. Len(pl) :
                              /\ pl[i].name = nm
                              /\ \A j \in (i + 1) .. Len(pl) : pl[j].name # nm
        IN  /\ Len(d) = Cardinality(firsts)
            /\ \A i \in firsts : d[rank(i)][1] = pl[i].name
            /\ \A k \in 1 .. Len(d) : d[k][2] = pl[lastOf(d[k][1])]
            /\ \A i, j \in 1 .. Len(d) : d[i][1] = d[j][1] => i = j
            /\ \A i \in 1 .. Len(d) : d[i][2].vis = "PORT"
            /\ Distinct(pl) =>
                   /\ Len(d) = Len(pl)
                   /\ \A i \in 1 .. Len(pl) : d[i] = <<pl[i].name, pl[i]>>
            /\ last.prim <= Len(Registry) => Distinct(pl)
            /\ last.prim = Mos => Keys(d) = <<"d", "g", "s", "b">>

\* ports was read on a Primitive declared with two different ports of one name
C6_Witness ==
    /\ last.op = "ports"
    /\ last.prim > Len(Registry)
    /\ Len(prims[last.prim].port_list) = 2
    /\ Len(last.val) = 1
    /\ prims[last.prim].port_list[1] # prims[last.prim].port_list[2]

----------------------------------------------------------------------------
\* Several threads, each constructing one PrimitiveCall on the same Primitive.
\* A thread's frame holds its arguments (prim, params), the instance under
\* construction (self), and how the construction ended (exc, ret).

Threads == 1 .. NumThreads

\* the values the threads pass
Pool ==
    << [cls |-> "MosParams", fields |-> MosFields(Some(1), Some(2), 1, 1, "NMOS", "STD")],
       [cls |-> "MosParamsSub", fields |-> MosFields(Some(1), Some(2), 1, 1, "NMOS", "STD")],
       [cls |-> "PhysicalResistorParams", fields |-> [r |-> 1]],
       [cls |-> "HasNoParams", fields |-> << >>],
       [cls |-> "NoParamsSub", fields |-> << >>] >>

InitConc ==
    /\ prims = Registry
    /\ objs = Pool
    /\ calls = << >>
    /\ last = Op("import", NoExc, 0, 0, 0, << >>)
    /\ inp = [kind |-> "threads"]
    /\ \E P \in {Mos, IdealResistor, IdealShort} :
           th \in [Threads -> [pc : {"idle"}, prim : {P}, params : 1 .. Len(Pool),
                               self : {[prim |-> 0, params |-> 0]},
                               exc : {"none"}, ret : {0}]]

\* Primitive.__call__ entered: a new PrimitiveCall instance, no field set yet
CallEnter(t) ==
    /\ th[t].pc = "idle"
    /\ th' = [th EXCEPT ![t].pc = "new"]
    /\ UNCHANGED <<prims, objs, calls, last, inp>>

\* self.prim = prim
SetPrim(t) ==
    /\ th[t].pc = "new"
    /\ th' = [th EXCEPT ![t].pc = "prim_set", ![t].self.prim = th[t].prim]
    /\ UNCHANGED <<prims, objs, calls, last, inp>>

\* self.params = params
SetParamsShared(t) ==
    /\ th[t].pc = "prim_set"
    /\ th' = [u \in Threads |->
                 IF u = t
                 THEN [th[u] EXCEPT !.pc = "post", !.self.params = th[t].params]
                 ELSE IF th[u].pc = "post"
                 THEN [th[u] EXCEPT !.self.params = th[t].params]
                 ELSE th[u]]
    /\ UNCHANGED <<prims, objs, calls, last, inp>>

SetParams(t) ==
    /\ th[t].pc = "prim_set"
    /\ th' = [th EXCEPT ![t].pc = "post", ![t].self.params = th[t].params]
    /\ UNCHANGED <<prims, objs, calls, last, inp>>

\* __post_init_post_parse__ on the thread's instance, then return or raise
PostInit(t) ==
    LET c == PrimitiveCall(calls, objs, prims, th[t].self.prim, th[t].self.params)
    IN  /\ th[t].pc = "post"
        /\ calls' = c.calls
        /\ th' = [th EXCEPT ![t].pc = IF c.r.exc = "none" THEN "done" ELSE "raised",
                            ![t].exc = c.r.exc,
                            ![t].ret = IF c.r.exc = "none" THEN Len(c.calls) ELSE 0]
        /\ UNCHANGED <<prims, objs, last, inp>>

NextConc ==
    \E t \in Threads : CallEnter(t) \/ SetPrim(t) \/ SetParams(t) \/ PostInit(t)

SpecConc == InitConc /\ [][NextConc]_vars

C7_Outcome ==
    \A t \in Threads :
        LET alone == prims[th[t].prim].paramtype \in Mro(objs[th[t].params].cls)
        IN  /\ th[t].pc = "done" =>
                /\ alone
                /\ th[t].exc = "none"
                /\ calls[th[t].ret] = [prim |-> th[t].prim, params |-> th[t].params]
            /\ th[t].pc = "raised" =>
                /\ ~ alone
                /\ th[t].exc = "TypeError"
                /\ th[t].ret = 0
            /\ \A u \in Threads :
                   (u # t /\ th[t].pc = "done" /\ th[u].pc = "done") => th[t].ret # th[u].ret

\* C7: while several PrimitiveCall constructions on one Primitive interleave,
\* the Primitive (name, desc, port_list, paramtype, primtype) and the values
\* passed never change, and every construction ends as it would have alone:
\* with its own PrimitiveCall of its own params when they are an instance of
\* paramtype, and with the type-mismatch error otherwise
C7_Concurrent ==
    /\ [] C7_Outcome
    /\ [][prims' = prims /\ objs' = objs]_vars

\* all constructions are over, on one Primitive: one succeeded, another raised
C7_Witness ==
    /\ \A t \in Threads : th[t].pc \in {"done", "raised"}
    /\ \E t, u \in Threads :
           /\ th[t].pc = "done"
           /\ th[u].pc = "raised"
           /\ th[t].prim = th[u].prim

====
